---- MODULE Spec2Model ----
(***************************************************************************)
(* Model of the feed-extraction session of XToPod:                         *)
(*   src/src/scrapers/playwright_scraper.py  PlaywrightScraper             *)
(*   src/src/scrapers/models.py              ScrapingSession               *)
(*   src/src/pipeline/orchestrator.py        PodcastPipeline.collect_tweets*)
(*                                                                         *)
(* scrape_for_you_feed is an async generator.  Its position pc is always   *)
(* one of its suspension points (an await on the browser driver, or the    *)
(* yield that hands a record to the consumer); the code between two        *)
(* suspension points runs without interleaving and is one action.  The     *)
(* response callback _handle_response runs on the same event loop, so it   *)
(* acts only while the generator is suspended.                             *)
(*                                                                         *)
(* The specifications share the variables:                                 *)
(*   Spec / FairSpec  one scrape_for_you_feed session;                     *)
(*   ExtractSpec      _extract_tweets_from_response, find_tweet_results    *)
(*                    and _parse_tweet_object applied to JSON payloads;    *)
(*   ObjectSpec       several generators started on one PlaywrightScraper; *)
(*   SoloSpec         one generator of any kind, with every way it ends;   *)
(*   StoreSpec        the tweets table of src/src/storage/repository.py;   *)
(*   EpisodeSpec      the table under generate_podcast and cleanup.        *)
(***************************************************************************)
EXTENDS Integers, Sequences, FiniteSets, TLC

VARIABLES
    config,               \* ScraperConfig: max_scrolls, tweets_per_session
    pc,                   \* suspension point of scrape_for_you_feed
    max_tweets,           \* local max_tweets after line 319
    status,               \* ScrapingSession.status
    error_message,        \* ScrapingSession.error_message ("" models None)
    tweets_collected,     \* ScrapingSession.tweets_collected
    collected,            \* self._collected_tweets, in insertion order
    scrolls,              \* local scrolls
    last_count,           \* local last_count
    no_new_tweets_count,  \* local no_new_tweets_count
    current_count,        \* local current_count
    new_tweets,           \* rest of the list the for loop of line 357 walks
    exc,                  \* exception in flight through except/finally
    outcome,              \* how the generator ended, as its consumer sees it
    caller,               \* result of PodcastPipeline.collect_tweets
    yielded,              \* history: records handed to the consumer, in order
    warnings,             \* history: logger.warning calls of line 177
    resent,               \* history: a record came again with other field values
    grew,                 \* history: a record was inserted after the loop began
    body,                 \* a JSON value handed to the extraction chain
    ret,                  \* what the last call of a pure operation gave
    store,                \* the rows of the tweets table
    gens,                 \* the generators started on one PlaywrightScraper
    episodes              \* history: the tweet ids of each episode generated

vars == <<config, pc, max_tweets, status, error_message, tweets_collected,
          collected, scrolls, last_count, no_new_tweets_count, current_count,
          new_tweets, exc, outcome, caller, yielded, warnings, resent,
          grew, body, ret, store, gens, episodes>>

(***************************************************************************)
(* Bounds of the model.                                                    *)
(***************************************************************************)
MaxId == 3          \* identifiers are 1..MaxId
MaxBatch == 2       \* candidates in one payload
MaxWarnings == 1    \* responses whose processing fails in one session
MaxTarget == 2      \* largest max_tweets / tweets_per_session
MaxScrollsCap == 9  \* largest config.max_scrolls

(***************************************************************************)
(* Program constants of the scroll loop.                                   *)
(***************************************************************************)
RecoveryThreshold == 2
HardStallThreshold == 8


\* A candidate is what find_tweet_results hands to _parse_tweet_object,
\* reduced to the two fields that decide acceptance; rest_id 0 and
\* full_text "" are the absent (falsy) values.
\*
\* Identifiers are opaque, so the feed's records are numbered in the order
\* the session first meets them: with k records collected, the next unseen
\* records are k+1, k+2, ...  Every run is such a run up to renaming.
Fresh(k, m) == [i \in 1..m |-> [rest_id |-> k + i, full_text |-> "a"]]

\* The values of config.max_scrolls tried: no scroll, one scroll, a cap
\* reached before the stall limit and a cap beyond it.
ScrollCaps == {0, 1, RecoveryThreshold + 1, MaxScrollsCap}

Min(a, b) == IF a < b THEN a ELSE b
Max(a, b) == IF a < b THEN b ELSE a

\* What a payload may hold beside unseen records: a candidate without
\* identifier, one without body text, and a record already met (or record 1)
\* sent again, unchanged ("a") or with other field values ("b").
Siblings(k) ==
    {[rest_id |-> 0, full_text |-> "a"], [rest_id |-> 1, full_text |-> ""]}
        \cup [rest_id : 1..Max(k, 1), full_text : {"a", "b"}]

\* The candidate lists of a payload met with k records collected: up to
\* MaxBatch candidates, the unseen records alone or with one sibling before
\* or after them.
PayloadData(k) ==
    {Fresh(k, m) : m \in 0..Min(MaxBatch, MaxId - k)}
        \cup {<<c>> \o Fresh(k, m) : c \in Siblings(k), m \in 0..Min(MaxBatch - 1, MaxId - k)}
        \cup {Fresh(k, m) \o <<c>> : c \in Siblings(k), m \in 0..Min(MaxBatch - 1, MaxId - k)}

\* A response: its url may not be a feed endpoint, its body may not be JSON,
\* its JSON may have a shape on which find_tweet_results raises (data is
\* then what the walk had found before the node that raised), or it holds
\* candidates.
Payloads(k) ==
    {[kind |-> kd, data |-> <<>>] : kd \in {"other_url", "not_json"}}
        \cup {[kind |-> "bad_shape", data |-> Fresh(k, m)] : m \in 0..Min(1, MaxId - k)}
        \cup {[kind |-> "ok", data |-> d] : d \in PayloadData(k)}

(***************************************************************************)
(* Pure helpers: the extraction chain and the collector.                   *)
(***************************************************************************)

\* _parse_tweet_object, lines 228-234: None (the empty sequence here) when
\* the identifier or the body text is missing, else the Tweet.
parse_tweet_object(obj) ==
    IF obj.rest_id = 0 THEN <<>>
    ELSE IF obj.full_text = "" THEN <<>>
    ELSE <<[tweet_id |-> obj.rest_id, text |-> obj.full_text]>>

\* _extract_tweets_from_response, lines 209-217: the accepted candidates, in
\* the order find_tweet_results found them.
RECURSIVE extract_tweets_from_response(_)
extract_tweets_from_response(data) ==
    IF data = <<>> THEN <<>>
    ELSE parse_tweet_object(Head(data)) \o extract_tweets_from_response(Tail(data))

CollectedIds(coll) == {coll[i].tweet_id : i \in 1..Len(coll)}

\* Mutant: the test of line 173 dropped, so the last occurrence wins.
InsertTweetOverwrite(coll, tweet) ==
    IF tweet.tweet_id \notin CollectedIds(coll) THEN Append(coll, tweet)
    ELSE [i \in 1..Len(coll) |->
             IF coll[i].tweet_id = tweet.tweet_id THEN tweet ELSE coll[i]]

\* One pass of the loop body of lines 173-174.
InsertTweet(coll, tweet) ==
    IF tweet.tweet_id \notin CollectedIds(coll) THEN Append(coll, tweet) ELSE coll

\* The for loop of lines 172-175.
RECURSIVE InsertAll(_, _)
InsertAll(coll, tweets) ==
    IF tweets = <<>> THEN coll
    ELSE InsertAll(InsertTweet(coll, Head(tweets)), Tail(tweets))

\* Mutant: the slice of line 356 taken from the start of the collector.
NewTweetsFromStart(coll, last, current) == SubSeq(coll, 1, current)

\* Line 356: list(self._collected_tweets.values())[last_count:current_count]
NewTweets(coll, last, current) == SubSeq(coll, last + 1, current)

\* Line 319: max_tweets or self.config.tweets_per_session (None is -1 here)
EffectiveMaxTweets(arg, cfg) ==
    IF arg = -1 \/ arg = 0 THEN cfg.tweets_per_session ELSE arg

\* Mutant: the while condition without the scroll cap.
LoopContinuesNoCap(size, target, sc, cap) == size < target

\* Line 349: the while condition.
LoopContinues(size, target, sc, cap) == size < target /\ sc < cap

\* Mutant: the test of line 365 written with > for >=.
NeedsRecoveryLate(n) == n > RecoveryThreshold

\* Line 365 and line 369: the two stall thresholds.
NeedsRecovery(n) == n >= RecoveryThreshold

\* Mutant: the test of line 369 written with > for >=.
StallExhaustedLate(n) == n > HardStallThreshold

StallExhausted(n) == n >= HardStallThreshold

\* Mutant: collect_tweets catching what the generator raises.
CollectTweetsSwallows(how) == "returned"

\* orchestrator.py lines 132-134: the async for has no handler, so what the
\* generator raises leaves collect_tweets; a normal end returns the count.
CollectTweetsResult(how) == IF how = "raised" THEN "raised" ELSE "returned"

(***************************************************************************)
(* Initial state: a PlaywrightScraper after __init__, no session yet.      *)
(***************************************************************************)
Init ==
    /\ config \in [max_scrolls : ScrollCaps, tweets_per_session : {MaxTarget}]
    /\ pc = "idle"
    /\ max_tweets = 0
    /\ status = "idle"
    /\ error_message = ""
    /\ tweets_collected = 0
    /\ collected = <<>>
    /\ scrolls = 0
    /\ last_count = 0
    /\ no_new_tweets_count = 0
    /\ current_count = 0
    /\ new_tweets = <<>>
    /\ exc = "none"
    /\ outcome = "none"
    /\ caller = "none"
    /\ yielded = <<>>
    /\ warnings = 0
    /\ resent = FALSE
    /\ grew = FALSE
    /\ body = <<>>
    /\ ret = <<>>
    /\ store = <<>>
    /\ gens = <<>>
    /\ episodes = <<>>

\* The state of the parts a session of scrape_for_you_feed does not touch:
\* they have specifications of their own below.
Apart == <<body, ret, store, gens, episodes>>

Locals == <<scrolls, last_count, no_new_tweets_count, current_count, new_tweets>>
Session == <<status, error_message, tweets_collected>>
History == <<warnings, resent, grew>>

\* The suspension points at which responses reach the callback: from
\* page.on("response") of line 111 until context.close() takes the page down.
Listening ==
    {"goto", "delay", "wait_selector", "scroll", "forced_scroll", "yield",
     "save_state", "close"}
InLoop == {"scroll", "forced_scroll", "yield"}

(***************************************************************************)
(* Shared fragments of the generator's control flow.                       *)
(***************************************************************************)

\* Lines 349 and 377-382: test the while condition with sc scrolls done;
\* either call _scroll_page or leave the loop, mark the session completed
\* and start saving the browser state.
LoopHead(sc) ==
    IF LoopContinues(Len(collected), max_tweets, sc, config.max_scrolls)
    THEN /\ pc' = "scroll"
         /\ UNCHANGED <<status, exc>>
    ELSE /\ pc' = "save_state"
         /\ status' = "completed"
         /\ UNCHANGED exc

\* Line 371 (break) followed by lines 377-382.
LoopBreak ==
    /\ pc' = "save_state"
    /\ status' = "completed"
    /\ UNCHANGED exc

\* Lines 384-391: except Exception sets the session failed with str(e),
\* re-raises, and the finally clause awaits context.close().
Fail(msg) ==
    /\ status' = "failed"
    /\ error_message' = msg
    /\ exc' = "driver"
    /\ pc' = "close"

\* The generator is over: its consumer, collect_tweets, sees how it ended.
\* The locals keep their last values.
Finish(how) ==
    /\ pc' = "done"
    /\ outcome' = how
    /\ caller' = CollectTweetsResult(how)
    /\ UNCHANGED Locals

(***************************************************************************)
(* scrape_for_you_feed, lines 319-327, and _setup_browser.                 *)
(***************************************************************************)

\* Lines 319-327: first resumption of the generator up to the first await of
\* _setup_browser.
Call ==
    /\ pc = "idle"
    /\ \E arg \in {-1} \cup (0..MaxTarget) :
           max_tweets' = EffectiveMaxTweets(arg, config)
    /\ status' = "running"
    /\ error_message' = ""
    /\ tweets_collected' = 0
    /\ collected' = <<>>
    /\ pc' = "launch"
    /\ UNCHANGED <<Apart, config, Locals, exc, outcome, caller, yielded, History>>

\* _setup_browser lines 72-83, 103, 106, 108: each driver await returns.
SetupStep ==
    /\ pc \in {"launch", "new_context", "add_cookies", "new_page"}
    /\ pc' = CASE pc = "launch" -> "new_context"
               [] pc = "new_context" -> "add_cookies"
               [] pc = "add_cookies" -> "new_page"
               [] pc = "new_page" -> "goto"
    /\ UNCHANGED <<Apart, config, max_tweets, Session, collected, Locals, exc, outcome,
                   caller, yielded, History>>

\* A driver await of _setup_browser raises.  Line 327 is outside the try of
\* line 329, so neither the except nor the finally clause runs.
SetupRaises ==
    /\ pc \in {"launch", "new_context", "add_cookies", "new_page"}
    /\ exc' = "driver"
    /\ Finish("raised")
    /\ UNCHANGED <<Apart, config, max_tweets, Session, collected, yielded, History>>

(***************************************************************************)
(* Lines 329-343: navigation and the first content marker.                 *)
(***************************************************************************)
GotoReturns ==
    /\ pc = "goto"
    /\ pc' = "delay"
    /\ UNCHANGED <<Apart, config, max_tweets, Session, collected, Locals, exc, outcome,
                   caller, yielded, History>>

\* Mutant: the try of line 329 with its finally clause but no except clause.
GotoRaisesNoExcept ==
    /\ pc = "goto"
    /\ exc' = "driver"
    /\ pc' = "close"
    /\ UNCHANGED <<Apart, config, max_tweets, Session, collected, Locals, outcome, caller,
                   yielded, History>>

GotoRaises ==
    /\ pc = "goto"
    /\ Fail("goto")
    /\ UNCHANGED <<Apart, config, max_tweets, tweets_collected, collected, Locals, outcome,
                   caller, yielded, History>>

DelayReturns ==
    /\ pc = "delay"
    /\ pc' = "wait_selector"
    /\ UNCHANGED <<Apart, config, max_tweets, Session, collected, Locals, exc, outcome,
                   caller, yielded, History>>

\* Lines 338-339 and 345-349: the marker appeared; initialise the loop and
\* test its condition for the first time.
WaitSelectorReturns ==
    /\ pc = "wait_selector"
    /\ scrolls' = 0
    /\ last_count' = 0
    /\ no_new_tweets_count' = 0
    /\ LoopHead(0)
    /\ UNCHANGED <<Apart, config, max_tweets, error_message, tweets_collected, collected,
                   current_count, new_tweets, outcome, caller, yielded, History>>

\* Lines 340-342 re-raise into lines 384-388.
WaitSelectorRaises ==
    /\ pc = "wait_selector"
    /\ Fail("wait_for_selector")
    /\ UNCHANGED <<Apart, config, max_tweets, tweets_collected, collected, Locals, outcome,
                   caller, yielded, History>>

(***************************************************************************)
(* Lines 349-375: the scroll loop.                                         *)
(***************************************************************************)

\* Lines 350-375, from the return of _scroll_page to the next suspension:
\* count the scroll, compare the collector with last_count, then either
\* yield the first new record, or count a stall and recover, break or loop.
ScrollReturns ==
    /\ pc = "scroll"
    /\ scrolls' = scrolls + 1
    /\ current_count' = Len(collected)
    /\ IF current_count' > last_count
       THEN /\ new_tweets' = NewTweets(collected, last_count, current_count')
            /\ yielded' = Append(yielded, Head(new_tweets'))
            /\ pc' = "yield"
            /\ UNCHANGED <<last_count, no_new_tweets_count, status, exc>>
       ELSE /\ no_new_tweets_count' = no_new_tweets_count + 1
            /\ IF NeedsRecovery(no_new_tweets_count')
               THEN /\ pc' = "forced_scroll"
                    /\ UNCHANGED <<status, exc>>
               ELSE IF StallExhausted(no_new_tweets_count')
                    THEN LoopBreak
                    ELSE LoopHead(scrolls')
            /\ UNCHANGED <<last_count, new_tweets, yielded>>
    /\ UNCHANGED <<Apart, config, max_tweets, error_message, tweets_collected, collected,
                   outcome, caller, History>>

\* Lines 306 / 350 and 384-388: the driver's scroll raises.
ScrollRaises ==
    /\ pc = "scroll"
    /\ Fail("scroll")
    /\ UNCHANGED <<Apart, config, max_tweets, tweets_collected, collected, Locals, outcome,
                   caller, yielded, History>>

\* Lines 367-375: the forced scroll to the bottom returned; break on the
\* hard threshold, else back to the while condition.
ForcedScrollReturns ==
    /\ pc = "forced_scroll"
    /\ IF StallExhausted(no_new_tweets_count) THEN LoopBreak ELSE LoopHead(scrolls)
    /\ UNCHANGED <<Apart, config, max_tweets, error_message, tweets_collected, collected,
                   Locals, outcome, caller, yielded, History>>

ForcedScrollRaises ==
    /\ pc = "forced_scroll"
    /\ Fail("forced scroll")
    /\ UNCHANGED <<Apart, config, max_tweets, tweets_collected, collected, Locals, outcome,
                   caller, yielded, History>>

\* Mutant: line 361 left out, so progress does not reset the stall counter.
ConsumerResumesNoReset ==
    /\ pc = "yield"
    /\ tweets_collected' = tweets_collected + 1
    /\ new_tweets' = Tail(new_tweets)
    /\ IF new_tweets' # <<>>
       THEN /\ yielded' = Append(yielded, Head(new_tweets'))
            /\ pc' = "yield"
            /\ UNCHANGED <<last_count, status, exc>>
       ELSE /\ last_count' = current_count
            /\ LoopHead(scrolls)
            /\ UNCHANGED yielded
    /\ UNCHANGED <<Apart, config, max_tweets, error_message, collected, scrolls,
                   no_new_tweets_count, current_count, outcome, caller, History>>

\* Mutant: line 359 left out, so a record handed over is not counted.
ConsumerResumesNoCount ==
    /\ pc = "yield"
    /\ new_tweets' = Tail(new_tweets)
    /\ IF new_tweets' # <<>>
       THEN /\ yielded' = Append(yielded, Head(new_tweets'))
            /\ pc' = "yield"
            /\ UNCHANGED <<last_count, no_new_tweets_count, status, exc>>
       ELSE /\ last_count' = current_count
            /\ no_new_tweets_count' = 0
            /\ LoopHead(scrolls)
            /\ UNCHANGED yielded
    /\ UNCHANGED <<Apart, config, max_tweets, error_message, tweets_collected, collected,
                   scrolls, current_count, outcome, caller, History>>

\* Mutant: line 360 reads the collector size again after the yields, in
\* place of the size the slice was taken with.
ConsumerResumesRereads ==
    /\ pc = "yield"
    /\ tweets_collected' = tweets_collected + 1
    /\ new_tweets' = Tail(new_tweets)
    /\ IF new_tweets' # <<>>
       THEN /\ yielded' = Append(yielded, Head(new_tweets'))
            /\ pc' = "yield"
            /\ UNCHANGED <<last_count, no_new_tweets_count, status, exc>>
       ELSE /\ last_count' = Len(collected)
            /\ no_new_tweets_count' = 0
            /\ LoopHead(scrolls)
            /\ UNCHANGED yielded
    /\ UNCHANGED <<Apart, config, max_tweets, error_message, collected, scrolls,
                   current_count, outcome, caller, History>>

\* Lines 358-361 and 373-375, 349: the consumer asks for the next record.
\* Count the one it had, then yield the next of the slice or, after the
\* last, advance last_count, reset the stall counter and test the loop.
ConsumerResumes ==
    /\ pc = "yield"
    /\ tweets_collected' = tweets_collected + 1
    /\ new_tweets' = Tail(new_tweets)
    /\ IF new_tweets' # <<>>
       THEN /\ yielded' = Append(yielded, Head(new_tweets'))
            /\ pc' = "yield"
            /\ UNCHANGED <<last_count, no_new_tweets_count, status, exc>>
       ELSE /\ last_count' = current_count
            /\ no_new_tweets_count' = 0
            /\ LoopHead(scrolls)
            /\ UNCHANGED yielded
    /\ UNCHANGED <<Apart, config, max_tweets, error_message, collected, scrolls,
                   current_count, outcome, caller, History>>

\* The consumer closes the generator while it is suspended at line 358:
\* GeneratorExit is no Exception, so only the finally clause runs.
ConsumerCloses ==
    /\ pc = "yield"
    /\ exc' = "exit"
    /\ pc' = "close"
    /\ UNCHANGED <<Apart, config, max_tweets, Session, collected, Locals, outcome, caller,
                   yielded, History>>

(***************************************************************************)
(* Lines 377-391: leaving the session.                                     *)
(***************************************************************************)

\* Line 382 returned; the finally clause awaits context.close().
SaveStateReturns ==
    /\ pc = "save_state"
    /\ pc' = "close"
    /\ UNCHANGED <<Apart, config, max_tweets, Session, collected, Locals, exc, outcome,
                   caller, yielded, History>>

\* Line 382 raises inside the try: lines 384-388 run.
SaveStateRaises ==
    /\ pc = "save_state"
    /\ Fail("storage_state")
    /\ UNCHANGED <<Apart, config, max_tweets, tweets_collected, collected, Locals, outcome,
                   caller, yielded, History>>

\* Line 391 returned: the exception in flight, if any, leaves the generator.
CloseReturns ==
    /\ pc = "close"
    /\ Finish(CASE exc = "driver" -> "raised"
                [] exc = "exit" -> "closed"
                [] OTHER -> "returned")
    /\ UNCHANGED <<Apart, config, max_tweets, Session, collected, exc, yielded, History>>

\* Line 391 raises: that exception leaves the generator.
CloseRaises ==
    /\ pc = "close"
    /\ exc' = "driver"
    /\ Finish("raised")
    /\ UNCHANGED <<Apart, config, max_tweets, Session, collected, yielded, History>>

(***************************************************************************)
(* _handle_response, lines 158-177.                                        *)
(***************************************************************************)

\* Mutant: records inserted as the walk finds them, so those found before
\* the node that raised stay in the collector.
CollectorAfterPartial(coll, p) ==
    IF p.kind \in {"ok", "bad_shape"}
    THEN InsertAll(coll, extract_tweets_from_response(p.data))
    ELSE coll

\* The collector after one response.  A url that is no feed endpoint is
\* ignored; response.json() raising, or the extraction raising, is caught by
\* line 176 before the insertion loop has started.
CollectorAfter(coll, p) ==
    IF p.kind = "ok" THEN InsertAll(coll, extract_tweets_from_response(p.data)) ELSE coll

\* Some record of the payload has the identifier of a record the collector
\* holds once the payload is handled, and differs from that record.
CameAgainChanged(coll, data) ==
    LET tweets == extract_tweets_from_response(data)
        after == InsertAll(coll, tweets)
    IN  \E i \in 1..Len(tweets) : \A j \in 1..Len(after) : after[j] # tweets[i]

\* Line 177 is reached exactly when the try block raised.
ParseFailed(p) == p.kind \in {"not_json", "bad_shape"}

handle_response(p) ==
    /\ pc \in Listening
    /\ ParseFailed(p) => warnings < MaxWarnings
    /\ collected' = CollectorAfter(collected, p)
    /\ warnings' = IF ParseFailed(p) THEN warnings + 1 ELSE warnings
    /\ resent' = (resent \/ (p.kind = "ok" /\ CameAgainChanged(collected, p.data)))
    /\ grew' = (grew \/ (pc \in InLoop /\ Len(collected') > Len(collected)))
    /\ UNCHANGED <<Apart, config, pc, max_tweets, Session, Locals, exc, outcome, caller,
                   yielded>>

HandleResponse == \E p \in Payloads(Len(collected)) : handle_response(p)

(***************************************************************************)
(* Specification.                                                          *)
(***************************************************************************)

\* Every step of the generator, its driver and its consumer that ends a
\* suspension.
Advance ==
    \/ Call
    \/ SetupStep
    \/ SetupRaises
    \/ GotoReturns
    \/ GotoRaises
    \/ DelayReturns
    \/ WaitSelectorReturns
    \/ WaitSelectorRaises
    \/ ScrollReturns
    \/ ScrollRaises
    \/ ForcedScrollReturns
    \/ ForcedScrollRaises
    \/ ConsumerResumes
    \/ ConsumerCloses
    \/ SaveStateReturns
    \/ SaveStateRaises
    \/ CloseReturns
    \/ CloseRaises

Next == Advance \/ HandleResponse

Spec == Init /\ [][Next]_vars

\* Every driver call ends (returning or raising) and the consumer keeps
\* asking for the next record.
FairSpec == Spec /\ WF_vars(Advance)

(***************************************************************************)
(* Vocabulary of the properties.                                           *)
(***************************************************************************)
IsPrefix(s, t) == Len(s) <= Len(t) /\ SubSeq(t, 1, Len(s)) = s
UniqueIds(coll) == \A i, j \in 1..Len(coll) : coll[i].tweet_id = coll[j].tweet_id => i = j

\* Calls of _scroll_page so far: the iterations counted, and the call the
\* generator is waiting in.
ScrollCalls == scrolls + (IF pc = "scroll" THEN 1 ELSE 0)

\* The generator ran to its end, no driver call raised and the consumer did
\* not close it.
Returned == pc = "done" /\ outcome = "returned"

(***************************************************************************)
(* C1  Target termination: when the scroll loop of a session with target   *)
(* T >= 1 ends before the scroll cap and the payloads have delivered more   *)
(* than T unique valid records, the session is completed and the consumer  *)
(* has been handed exactly T records, never more.                          *)
(***************************************************************************)
TargetTermination ==
    [][(pc \in InLoop /\ pc' = "save_state" /\ max_tweets >= 1
            /\ scrolls' < config.max_scrolls /\ Len(collected) > max_tweets)
          => (status' = "completed" /\ Len(yielded') = max_tweets)]_vars

(***************************************************************************)
(* C2  Stall termination: a session whose collector never grows once the   *)
(* loop has started, whose driver calls all return and whose consumer      *)
(* keeps consuming, ends completed without error, after at most            *)
(* HardStallThreshold consecutive no-progress iterations (plus the one     *)
(* iteration that hands over what navigation had collected) and never more *)
(* than config.max_scrolls iterations.                                     *)
(***************************************************************************)
StallTermination ==
    [](~grew /\ exc = "none")
        => <>(/\ Returned
              /\ status = "completed"
              /\ error_message = ""
              /\ no_new_tweets_count <= HardStallThreshold
              /\ scrolls <= HardStallThreshold + (IF yielded = <<>> THEN 0 ELSE 1)
              /\ scrolls <= config.max_scrolls)

\* A session that collected nothing at all ended completed on the hard
\* stall threshold.
StallTerminationWitness ==
    /\ Returned
    /\ ~grew
    /\ status = "completed"
    /\ collected = <<>>
    /\ no_new_tweets_count = HardStallThreshold
    /\ scrolls = HardStallThreshold

(***************************************************************************)
(* C3  Hard cap: whatever the payloads do, _scroll_page is called at most  *)
(* config.max_scrolls times, and the generator ends, provided every driver *)
(* call ends and the consumer keeps consuming.                             *)
(***************************************************************************)
HardCap == [](ScrollCalls <= config.max_scrolls) /\ <>(pc = "done")

\* The cap ended a loop in which every scroll brought a new record and the
\* target was still not reached.
HardCapWitness ==
    /\ pc = "save_state"
    /\ scrolls = config.max_scrolls
    /\ scrolls >= 1
    /\ Len(yielded) = scrolls
    /\ no_new_tweets_count = 0
    /\ Len(collected) < max_tweets

(***************************************************************************)
(* C4  Deduplication: the collector never holds two records with one       *)
(* identifier, and no step removes or changes a record it holds: a record  *)
(* that comes again, even with other field values, leaves the collector as *)
(* it was (the first occurrence wins).                                     *)
(***************************************************************************)
Deduplication == [](UniqueIds(collected)) /\ [][IsPrefix(collected, collected')]_vars

\* Record 1 came again with text "b" and the collector still holds its
\* first occurrence.
DeduplicationWitness ==
    /\ resent
    /\ Len(collected) >= 2
    /\ collected[1] = [tweet_id |-> 1, text |-> "a"]

(***************************************************************************)
(* C5  Stream order and uniqueness: what the consumer has been handed is   *)
(* always an initial part of the collector, in insertion order, so no      *)
(* identifier is handed over twice and a payload that repeats a collected  *)
(* record beside new ones adds only the new ones to the stream.            *)
(***************************************************************************)
StreamOrder == IsPrefix(yielded, collected) /\ UniqueIds(yielded)

\* Record 1 was handed over in one iteration; a later payload sent record 1
\* again beside record 2, and only record 2 followed.
StreamOrderWitness ==
    /\ pc = "yield"
    /\ resent
    /\ last_count = 1
    /\ current_count = 2
    /\ [i \in 1..Len(yielded) |-> yielded[i].tweet_id] = <<1, 2>>

(***************************************************************************)
(* C6  Terminal states: once the session status is completed or failed it  *)
(* never changes again.                                                    *)
(***************************************************************************)
TerminalStates ==
    [][(status \in {"completed", "failed"}) => (status' = status)]_vars

(***************************************************************************)
(* C7  Initial failure: when page.goto or the first wait_for_selector      *)
(* raises, the session becomes failed with the reason recorded, and from   *)
(* then on no scroll has been or is invoked, nothing has been or is        *)
(* yielded, and the generator ends by raising.                             *)
(***************************************************************************)
InitialFailure ==
    /\ [][(pc \in {"goto", "wait_selector"} /\ exc' = "driver")
             => (status' = "failed" /\ error_message' # "" /\ pc' = "close")]_vars
    /\ [](error_message \in {"goto", "wait_for_selector"}
             => /\ status = "failed"
                /\ pc \in {"close", "done"}
                /\ ScrollCalls = 0
                /\ yielded = <<>>
                /\ tweets_collected = 0
                /\ (pc = "done" => outcome = "raised" /\ caller = "raised"))

\* The marker wait failed after navigation had intercepted records.
InitialFailureWitness ==
    /\ pc = "done"
    /\ error_message = "wait_for_selector"
    /\ collected # <<>>
    /\ yielded = <<>>

(***************************************************************************)
(* C8  Mid-loop failure: when a scroll raises, the session becomes failed  *)
(* with the reason recorded, every record yielded before stays counted in  *)
(* tweets_collected, nothing is yielded or retracted afterwards, and the   *)
(* exception leaves the generator and collect_tweets.                      *)
(***************************************************************************)
MidLoopFailure ==
    /\ [][(pc \in {"scroll", "forced_scroll"} /\ exc' = "driver")
             => /\ status' = "failed"
                /\ error_message' # ""
                /\ yielded' = yielded
                /\ tweets_collected' = Len(yielded)]_vars
    /\ [][exc = "driver" => (yielded' = yielded /\ tweets_collected' = tweets_collected)]_vars
    /\ [](error_message \in {"scroll", "forced scroll"}
             => /\ status = "failed"
                /\ pc \in {"close", "done"}
                /\ (pc = "done" => outcome = "raised" /\ caller = "raised"))

\* A scroll raised after records had been handed over.
MidLoopFailureWitness ==
    /\ pc = "done"
    /\ error_message = "scroll"
    /\ caller = "raised"
    /\ Len(yielded) >= 1
    /\ tweets_collected = Len(yielded)

(***************************************************************************)
(* C9  Whenever the generator has ended, by returning or by raising on a   *)
(* driver error, the session status is completed or failed, and it is      *)
(* failed with a reason whenever a driver error occurred.                  *)
(***************************************************************************)
NeverLeftRunning ==
    (pc = "done" /\ outcome \in {"returned", "raised"})
        => /\ status \in {"completed", "failed"}
           /\ (exc = "driver" => status = "failed" /\ error_message # "")

(***************************************************************************)
(* C10  Payload parse failure is recovered locally: a response whose       *)
(* processing fails changes neither the collector, nor the loop's          *)
(* counters, nor the session, nor the generator's position; and after it a *)
(* response with an unseen record still enters the collector.              *)
(***************************************************************************)
ParseFailureLocal ==
    /\ [][warnings' # warnings
             => UNCHANGED <<collected, Locals, Session, pc, exc, outcome, caller,
                            yielded>>]_vars
    /\ []((warnings >= 1 /\ pc \in Listening /\ Len(collected) < MaxId)
             => ENABLED (HandleResponse /\ Len(collected') = Len(collected) + 1))

\* A response failed to parse, and records were collected and handed over
\* in the same session.
ParseFailureLocalWitness ==
    /\ warnings >= 1
    /\ pc = "yield"
    /\ status = "running"
    /\ grew

(***************************************************************************)
(* The extraction chain on JSON values.                                    *)
(*                                                                         *)
(* A JSON value is tagged with its Python type after response.json(): a    *)
(* dict keeps its items in document order, so a map is the sequence of its *)
(* <<key, value>> pairs.                                                   *)
(***************************************************************************)
Null == [t |-> "null"]
Str(s) == [t |-> "str", s |-> s]
Num(n) == [t |-> "num", n |-> n]
List(l) == [t |-> "list", l |-> l]
Map(m) == [t |-> "map", m |-> m]
Bool(b) == [t |-> "bool", b |-> b]
EmptyMap == Map(<<>>)

\* bool(v): None, "", 0, [] and {} are falsy.
Truthy(v) ==
    CASE v.t = "null" -> FALSE
      [] v.t = "str" -> v.s # ""
      [] v.t = "num" -> v.n # 0
      [] v.t = "list" -> v.l # <<>>
      [] v.t = "map" -> v.m # <<>>
      [] v.t = "bool" -> v.b

HasKey(v, key) == \E i \in 1..Len(v.m) : v.m[i][1] = key
Item(v, key) == v.m[CHOOSE i \in 1..Len(v.m) : v.m[i][1] = key][2]

\* v.get(key, default): only a dict has the method; on any other value the
\* attribute lookup raises AttributeError.
GetRaises(v) == v.t # "map"
Get(v, key, default) == IF HasKey(v, key) THEN Item(v, key) ELSE default

\* key in v: key membership on a dict, element membership on a list,
\* substring on a str (the strings of the model hold a key only when they
\* are that key); None and numbers are not containers and raise TypeError.
InRaises(v) == v.t \in {"null", "num", "bool"}
In(key, v) ==
    CASE v.t = "map" -> HasKey(v, key)
      [] v.t = "list" -> \E i \in 1..Len(v.l) : v.l[i] = Str(key)
      [] v.t = "str" -> v.s = key

\* The texts int() reads as a number, and the texts strptime reads with the
\* format of line 255; every other text of the model is read by neither.
DigitTexts == {"5"}
DateTexts == {"Wed Oct 10 20:19:24 +0000 2018"}

\* int(v), line 247: a number, a bool or a text of digits; any other text
\* raises ValueError, any other type TypeError.
IntRaises(v) == ~(v.t \in {"num", "bool"} \/ (v.t = "str" /\ v.s \in DigitTexts))
IntOf(v) ==
    CASE v.t = "num" -> Num(v.n)
      [] v.t = "bool" -> Num(IF v.b THEN 1 ELSE 0)
      [] v.t = "str" -> Num(5)

\* What _parse_tweet_object gives: an exception, None, or a Tweet.
Raised == [kind |-> "raise"]
None == [kind |-> "none"]
Some(tweet) == [kind |-> "tweet", tweet |-> tweet]

\* Lines 245-247: views is None unless the candidate has the key.
ViewsRaises(obj) ==
    /\ HasKey(obj, "views")
    /\ \/ GetRaises(Item(obj, "views"))
       \/ IntRaises(Get(Item(obj, "views"), "count", Num(0)))
Views(obj) ==
    IF HasKey(obj, "views") THEN IntOf(Get(Item(obj, "views"), "count", Num(0))) ELSE Null

\* Lines 250-258: strptime raises TypeError on a value that is no str, and
\* ValueError, which line 257 catches, on a text of another format.
CreatedAtRaises(legacy) ==
    HasKey(legacy, "created_at") /\ Item(legacy, "created_at").t # "str"
CreatedAt(legacy) ==
    IF HasKey(legacy, "created_at") /\ Item(legacy, "created_at").s \in DateTexts
    THEN [t |-> "datetime", s |-> Item(legacy, "created_at").s]
    ELSE Null

\* Lines 263-267.  The membership test raises on a value that is no
\* container; extended_entities["media"] raises unless it is a dict; the for
\* loop raises on a value that cannot be iterated, and media.get raises on
\* every item that is no dict (the keys of a dict and the characters of a
\* str are such items).
ExtendedEntities(legacy) == Get(legacy, "extended_entities", EmptyMap)
HasMedia(legacy) == In("media", ExtendedEntities(legacy))
MediaRaises(legacy) ==
    \/ InRaises(ExtendedEntities(legacy))
    \/ /\ HasMedia(legacy)
       /\ \/ ExtendedEntities(legacy).t # "map"
          \/ LET media == Item(ExtendedEntities(legacy), "media")
             IN  CASE media.t = "list" -> \E i \in 1..Len(media.l) : GetRaises(media.l[i])
                   [] media.t = "map" -> media.m # <<>>
                   [] media.t = "str" -> media.s # ""
                   [] OTHER -> TRUE
MediaUrls(legacy) ==
    IF HasMedia(legacy)
    THEN LET media == Item(ExtendedEntities(legacy), "media")
         IN  IF media.t = "list"
             THEN [i \in 1..Len(media.l) |-> Get(media.l[i], "media_url_https", Str(""))]
             ELSE <<>>
    ELSE <<>>

\* Tweet(...), lines 274-293: pydantic validates the field types of
\* models.py lines 11-39.  A str field takes only a str; an int field takes
\* a number, a bool or a text of digits; a bool field takes a bool, 0 or 1.
IsStr(v) == v.t = "str"
IsOptionalStr(v) == v.t \in {"str", "null"}
IsInt(v) == ~IntRaises(v)
IsBool(v) == v.t = "bool" \/ (v.t = "num" /\ v.n \in {0, 1})
ToBool(v) == IF v.t = "bool" THEN v.b ELSE v.n = 1

\* Lines 236-293, reached once the identifier and the body text are there.
ParseAccepted(obj, legacy, user_results, user_legacy, tweet_id, text) ==
    IF GetRaises(user_legacy) \/ ViewsRaises(obj) \/ CreatedAtRaises(legacy)
           \/ MediaRaises(legacy)
    THEN Raised
    ELSE LET user_id == Get(user_results, "rest_id", Str(""))
             username == Get(user_legacy, "screen_name", Str(""))
             display_name == Get(user_legacy, "name", username)
             likes == Get(legacy, "favorite_count", Num(0))
             retweets == Get(legacy, "retweet_count", Num(0))
             replies == Get(legacy, "reply_count", Num(0))
             is_retweet == IF HasKey(obj, "retweeted_status_result") THEN Bool(TRUE)
                           ELSE Get(legacy, "retweeted", Bool(FALSE))
             reply_to == Get(legacy, "in_reply_to_status_id_str", Null)
             media_urls == MediaUrls(legacy)
         IN  IF /\ IsStr(tweet_id) /\ IsStr(user_id) /\ IsStr(username)
                /\ IsStr(display_name) /\ IsStr(text)
                /\ IsInt(likes) /\ IsInt(retweets) /\ IsInt(replies)
                /\ IsBool(is_retweet) /\ IsOptionalStr(reply_to)
                /\ \A i \in 1..Len(media_urls) : IsStr(media_urls[i])
             THEN Some([tweet_id |-> tweet_id.s,
                        user_id |-> user_id.s,
                        username |-> username.s,
                        display_name |-> display_name.s,
                        text |-> text.s,
                        created_at |-> CreatedAt(legacy),
                        likes |-> IntOf(likes).n,
                        retweets |-> IntOf(retweets).n,
                        replies |-> IntOf(replies).n,
                        views |-> Views(obj),
                        is_retweet |-> ToBool(is_retweet),
                        is_reply |-> Truthy(reply_to),
                        is_quote |-> HasKey(obj, "quoted_status_result"),
                        has_media |-> HasMedia(legacy),
                        media_urls |-> media_urls,
                        tweet_url |-> <<"https://x.com/", username.s, "/status/", tweet_id.s>>,
                        reply_to_tweet_id |-> reply_to,
                        feed_type |-> "for_you"])
             ELSE Raised

\* _parse_tweet_object on a JSON value, lines 219-293, line by line: each
\* .get on a value that is no dict raises, and the two early returns come
\* before the lines after them can raise.
ParseTweetObject(obj) ==
    IF GetRaises(obj) THEN Raised
    ELSE LET legacy == Get(obj, "legacy", obj)
             core == Get(obj, "core", EmptyMap)
         IN  IF GetRaises(core) THEN Raised
             ELSE IF GetRaises(Get(core, "user_results", EmptyMap)) THEN Raised
             ELSE LET user_results ==
                          Get(Get(core, "user_results", EmptyMap), "result", EmptyMap)
                      rest_id == Get(obj, "rest_id", Null)
                  IN  IF GetRaises(user_results) THEN Raised
                      ELSE IF ~Truthy(rest_id) /\ GetRaises(legacy) THEN Raised
                      ELSE LET tweet_id == IF Truthy(rest_id) THEN rest_id
                                           ELSE Get(legacy, "id_str", Null)
                           IN  IF ~Truthy(tweet_id) THEN None
                               ELSE IF GetRaises(legacy) THEN Raised
                               ELSE LET text == Get(legacy, "full_text", Str(""))
                                    IN  IF ~Truthy(text) THEN None
                                        ELSE ParseAccepted(obj, legacy, user_results,
                                                 Get(user_results, "legacy", EmptyMap),
                                                 tweet_id, text)

\* What find_tweet_results gives: the candidates found, or an exception.
Found(out) == [raised |-> FALSE, out |-> out]
FindRaised == [raised |-> TRUE, out |-> <<>>]
Cat(a, b) == IF a.raised \/ b.raised THEN FindRaised ELSE Found(a.out \o b.out)

\* Lines 192-195: obj["tweet_results"].get raises unless the wrapper is a
\* dict; a falsy result is skipped.
WrapperResult(obj) ==
    IF ~HasKey(obj, "tweet_results") THEN Found(<<>>)
    ELSE IF GetRaises(Item(obj, "tweet_results")) THEN FindRaised
    ELSE LET result == Get(Item(obj, "tweet_results"), "result", EmptyMap)
         IN  IF Truthy(result) THEN Found(<<result>>) ELSE Found(<<>>)

\* Lines 197-198: the membership test raises on a legacy value that is no
\* container.
LegacyResult(obj) ==
    IF ~HasKey(obj, "legacy") THEN Found(<<>>)
    ELSE IF InRaises(Item(obj, "legacy")) THEN FindRaised
    ELSE IF In("full_text", Item(obj, "legacy")) THEN Found(<<obj>>) ELSE Found(<<>>)

\* find_tweet_results, lines 188-205: the candidates of a dict itself, then
\* those of its values in document order; those of the items of a list.
RECURSIVE find_tweet_results(_)
RECURSIVE FindInItems(_)
find_tweet_results(obj) ==
    CASE obj.t = "map" ->
             Cat(Cat(WrapperResult(obj), LegacyResult(obj)),
                 FindInItems([i \in 1..Len(obj.m) |-> obj.m[i][2]]))
      [] obj.t = "list" -> FindInItems(obj.l)
      [] OTHER -> Found(<<>>)

\* The loops of lines 200-201 and 203-204.
FindInItems(items) ==
    IF items = <<>> THEN Found(<<>>)
    ELSE Cat(find_tweet_results(Head(items)), FindInItems(Tail(items)))

\* Lines 209-215: a candidate on which _parse_tweet_object gives None or
\* raises is skipped.
RECURSIVE ParseAll(_)
ParseAll(tweet_objects) ==
    IF tweet_objects = <<>> THEN <<>>
    ELSE LET parsed == ParseTweetObject(Head(tweet_objects))
         IN  (IF parsed.kind = "tweet" THEN <<parsed.tweet>> ELSE <<>>)
                 \o ParseAll(Tail(tweet_objects))

\* _extract_tweets_from_response on a JSON value, lines 207-217: the call of
\* line 207 is outside the try of line 210.
ExtractTweetsFromResponse(json) ==
    IF find_tweet_results(json).raised THEN FindRaised
    ELSE Found(ParseAll(find_tweet_results(json).out))

\* Lines 169-177 on a JSON body: the collector after the response.
CollectorAfterBody(coll, json) ==
    IF ExtractTweetsFromResponse(json).raised THEN coll
    ELSE InsertAll(coll, ExtractTweetsFromResponse(json).out)

(***************************************************************************)
(* The JSON values the extraction chain is tried on.                       *)
(***************************************************************************)
MaxEntries == 2     \* entries in the instruction list of one payload

Absent == [t |-> "absent"]
Pair(key, v) == IF v = Absent THEN <<>> ELSE << <<key, v>> >>

Author ==
    Map(<< <<"rest_id", Str("u1")>>,
           <<"legacy", Map(<< <<"screen_name", Str("ann")>>, <<"name", Str("Ann")>> >>)>> >>)

\* The value under "core": absent, of another type, without a user, with a
\* user whose legacy block is null, or complete.
CoreValues ==
    {Absent, Null, EmptyMap,
     Map(<< <<"user_results", Null>> >>),
     Map(<< <<"user_results", Map(<< <<"result", Map(<< <<"legacy", Null>> >>)>> >>)>> >>),
     Map(<< <<"user_results", Map(<< <<"result", Author>> >>)>> >>)}

ViewsValues ==
    {Absent, Null, Num(5),
     Map(<< <<"count", Str("5")>> >>), Map(<< <<"count", Str("many")>> >>)}

ExtendedEntitiesValues ==
    {Absent, Null, List(<<Str("media")>>),
     Map(<< <<"media", Null>> >>),
     Map(<< <<"media", List(<<>>)>> >>),
     Map(<< <<"media", List(<<Map(<< <<"media_url_https", Str("u")>> >>)>>)>> >>)}

\* The legacy block: absent (the candidate is then its own legacy block),
\* null, a list, or a map of fields each absent, well typed or ill typed.
LegacyValues ==
    {Absent, Null, List(<<>>)}
        \cup {Map(Pair("id_str", i) \o Pair("full_text", f) \o Pair("created_at", c)
                      \o Pair("extended_entities", e) \o Pair("favorite_count", k)) :
                  i \in {Absent, Str("2")},
                  f \in {Absent, Str(""), Str("a"), Num(1)},
                  c \in {Absent, Str("Wed Oct 10 20:19:24 +0000 2018"), Str("today"), Num(1)},
                  e \in ExtendedEntitiesValues,
                  k \in {Absent, Str("many")}}

\* Candidate maps: every combination of the above, and the flat shape in
\* which the candidate carries the legacy fields itself.
Candidates ==
    {Map(Pair("rest_id", r) \o Pair("core", c) \o Pair("legacy", l) \o Pair("views", v)) :
         r \in {Absent, Str("1"), Str(""), Num(1)},
         c \in CoreValues, l \in LegacyValues, v \in ViewsValues}
        \cup {Map(Pair("rest_id", r) \o Pair("id_str", i) \o Pair("full_text", f)) :
                  r \in {Absent, Str("1")}, i \in {Absent, Str("2")},
                  f \in {Absent, Str(""), Str("a")}}

\* A complete candidate with identifier id.
Valid(id) ==
    Map(<< <<"rest_id", Str(id)>>,
           <<"core", Map(<< <<"user_results", Map(<< <<"result", Author>> >>)>> >>)>>,
           <<"legacy", Map(<< <<"full_text", Str("a")>>, <<"favorite_count", Num(3)>> >>)>> >>)

Wrapper(result) == Map(<< <<"tweet_results", Map(<< <<"result", result>> >>)>> >>)

\* A complete candidate that quotes another complete candidate.
Quoting(id, quoted) ==
    Map(Valid(id).m \o << <<"quoted_status_result", Map(<< <<"result", Valid(quoted)>> >>)>> >>)

\* The entries of a payload: results wrappers holding a complete candidate,
\* at two depths; a legacy-shaped map outside any wrapper; wrappers without
\* result; wrappers holding a candidate without identifier, without body
\* text, with an ill-typed field, with a null legacy block, or a result that
\* is no map; wrappers that are themselves no map; and a wrapper whose
\* record quotes another record.
Entries ==
    {Wrapper(Valid("1")), Wrapper(Valid("2")),
     Map(<< <<"content", Map(<< <<"itemContent", Wrapper(Valid("3"))>> >>)>> >>),
     Map(<< <<"legacy", Map(<< <<"id_str", Str("4")>>, <<"full_text", Str("a")>> >>)>> >>),
     Map(<< <<"tweet_results", EmptyMap>> >>),
     Wrapper(EmptyMap),
     Wrapper(Map(<< <<"legacy", Map(<< <<"full_text", Str("a")>> >>)>> >>)),
     Wrapper(Map(<< <<"rest_id", Str("5")>>, <<"legacy", Map(<< <<"full_text", Str("")>> >>)>> >>)),
     Wrapper(Map(<< <<"rest_id", Str("6")>>, <<"core", Null>>,
                    <<"legacy", Map(<< <<"full_text", Str("a")>> >>)>> >>)),
     Wrapper(List(<<Num(1)>>)),
     Wrapper(Map(<< <<"rest_id", Str("7")>>, <<"legacy", Null>> >>)),
     Map(<< <<"tweet_results", Null>> >>),
     Map(<< <<"tweet_results", List(<<>>)>> >>),
     Wrapper(Quoting("8", "9"))}

RECURSIVE SeqsUpTo(_, _)
SeqsUpTo(S, n) ==
    IF n = 0 THEN {<<>>}
    ELSE SeqsUpTo(S, n - 1) \cup {Append(q, e) : q \in SeqsUpTo(S, n - 1), e \in S}

\* A response body: the instruction list under data.
JsonPayloads ==
    {Map(<< <<"data", Map(<< <<"instructions", List(es)>> >>)>> >>) :
         es \in SeqsUpTo(Entries, MaxEntries)}

(***************************************************************************)
(* Specification of the extraction chain: one response body, and one call  *)
(* of the normalizer, the walker, the extraction or the callback's try     *)
(* block on it.                                                            *)
(***************************************************************************)

\* A PlaywrightScraper after __init__: no session, an empty collector.
NoSession ==
    /\ config = [max_scrolls |-> MaxScrollsCap, tweets_per_session |-> MaxTarget]
    /\ pc = "idle"
    /\ max_tweets = 0
    /\ status = "idle"
    /\ error_message = ""
    /\ tweets_collected = 0
    /\ collected = <<>>
    /\ scrolls = 0
    /\ last_count = 0
    /\ no_new_tweets_count = 0
    /\ current_count = 0
    /\ new_tweets = <<>>
    /\ exc = "none"
    /\ outcome = "none"
    /\ caller = "none"
    /\ yielded = <<>>
    /\ warnings = 0
    /\ resent = FALSE
    /\ grew = FALSE
    /\ episodes = <<>>

\* What the extraction chain, the generators and the repository calls leave
\* alone.
SessionFrame ==
    <<config, pc, max_tweets, Session, Locals, exc, outcome, caller, yielded,
      resent, grew, episodes>>

ExtractInit ==
    /\ NoSession
    /\ body \in Candidates \cup JsonPayloads
    /\ ret = [op |-> "none"]
    /\ store = <<>>
    /\ gens = <<>>

ParseCall ==
    /\ ret.op = "none"
    /\ ret' = [op |-> "parse", val |-> ParseTweetObject(body)]
    /\ UNCHANGED <<SessionFrame, collected, warnings, body, store, gens>>

FindCall ==
    /\ ret.op = "none"
    /\ ret' = [op |-> "find", val |-> find_tweet_results(body)]
    /\ UNCHANGED <<SessionFrame, collected, warnings, body, store, gens>>

ExtractCall ==
    /\ ret.op = "none"
    /\ ret' = [op |-> "extract", val |-> ExtractTweetsFromResponse(body)]
    /\ UNCHANGED <<SessionFrame, collected, warnings, body, store, gens>>

\* _handle_response lines 169-177 with body as what response.json() gave.
HandleCall ==
    /\ ret.op = "none"
    /\ collected' = CollectorAfterBody(collected, body)
    /\ warnings' = IF ExtractTweetsFromResponse(body).raised THEN warnings + 1 ELSE warnings
    /\ ret' = [op |-> "handle", val |-> ExtractTweetsFromResponse(body).raised]
    /\ UNCHANGED <<SessionFrame, body, store, gens>>

ExtractNext == ParseCall \/ FindCall \/ ExtractCall \/ HandleCall

ExtractSpec == ExtractInit /\ [][ExtractNext]_vars

(***************************************************************************)
(* Vocabulary of the extraction properties: the record occurrences of a    *)
(* payload, read off the payload itself.                                   *)
(***************************************************************************)
RECURSIVE Nodes(_)
Nodes(v) ==
    {v} \cup
        CASE v.t = "map" -> UNION {Nodes(v.m[i][2]) : i \in 1..Len(v.m)}
          [] v.t = "list" -> UNION {Nodes(v.l[i]) : i \in 1..Len(v.l)}
          [] OTHER -> {}

\* A results wrapper with a non-empty result.
IsWrapper(v) ==
    /\ v.t = "map"
    /\ HasKey(v, "tweet_results")
    /\ Item(v, "tweet_results").t = "map"
    /\ HasKey(Item(v, "tweet_results"), "result")
    /\ Truthy(Item(Item(v, "tweet_results"), "result"))

\* A map with a legacy sub-map holding body text.
IsLegacyShaped(v) ==
    /\ v.t = "map"
    /\ HasKey(v, "legacy")
    /\ Item(v, "legacy").t = "map"
    /\ HasKey(Item(v, "legacy"), "full_text")
    /\ Truthy(Item(Item(v, "legacy"), "full_text"))

Occurrences(json) ==
    {Item(Item(v, "tweet_results"), "result") : v \in {w \in Nodes(json) : IsWrapper(w)}}
        \cup {v \in Nodes(json) : IsLegacyShaped(v)}

\* The identifiers of the occurrences the normalizer accepts.
ValidIds(json) ==
    {ParseTweetObject(c).tweet.tweet_id :
         c \in {o \in Occurrences(json) : ParseTweetObject(o).kind = "tweet"}}

\* The payload holds something malformed: an occurrence the normalizer does
\* not accept, a results wrapper that is no map or has no result, or a
\* legacy block that is no map.
HasMalformed(json) ==
    \/ \E o \in Occurrences(json) : ParseTweetObject(o).kind # "tweet"
    \/ \E v \in Nodes(json) :
           /\ v.t = "map"
           /\ \/ HasKey(v, "tweet_results") /\ ~IsWrapper(v)
              \/ HasKey(v, "legacy") /\ Item(v, "legacy").t # "map"

\* The number of wrapper occurrences plus legacy-shaped occurrences, each
\* place of the payload counted.
RECURSIVE CountOccurrences(_)
RECURSIVE CountInItems(_)
CountOccurrences(v) ==
    (IF IsWrapper(v) THEN 1 ELSE 0) + (IF IsLegacyShaped(v) THEN 1 ELSE 0)
        + CASE v.t = "map" -> CountInItems([i \in 1..Len(v.m) |-> v.m[i][2]])
            [] v.t = "list" -> CountInItems(v.l)
            [] OTHER -> 0

CountInItems(items) ==
    IF items = <<>> THEN 0
    ELSE CountOccurrences(Head(items)) + CountInItems(Tail(items))

(***************************************************************************)
(* C11  A malformed candidate is dropped without affecting its siblings:   *)
(* once the callback has handled a payload that holds valid record         *)
(* occurrences together with malformed ones, every valid record of the     *)
(* payload is in the collector.                                            *)
(***************************************************************************)
MalformedDropped ==
    (ret.op = "handle" /\ HasMalformed(body))
        => ValidIds(body) \subseteq CollectedIds(collected)

(***************************************************************************)
(* C12  Normalizer totality: on every candidate map _parse_tweet_object    *)
(* returns a Tweet or None; it never raises.                               *)
(***************************************************************************)
NormalizerTotal ==
    (ret.op = "parse" /\ body.t = "map") => ret.val.kind \in {"tweet", "none"}

\* The legacy view of a candidate, line 222, and what it lacks.
LegacyOf(c) == Get(c, "legacy", c)
NoIdentifier(c) ==
    /\ ~Truthy(Get(c, "rest_id", Null))
    /\ LegacyOf(c).t = "map" => ~Truthy(Get(LegacyOf(c), "id_str", Null))
NoBodyText(c) ==
    LegacyOf(c).t = "map" => ~Truthy(Get(LegacyOf(c), "full_text", Str("")))

(***************************************************************************)
(* C13  Normalizer rejection: on a candidate with neither a top-level      *)
(* rest_id nor a legacy id_str, and on one whose legacy full_text is       *)
(* absent or empty, _parse_tweet_object returns None; so every Tweet it    *)
(* returns, and every record the callback puts into the collector, has a   *)
(* non-empty identifier and body text; and a candidate that has both but   *)
(* no author block is not rejected and gets empty author fields.           *)
(***************************************************************************)
NormalizerRejection ==
    /\ (ret.op = "parse" /\ (NoIdentifier(body) \/ NoBodyText(body))) => ret.val = None
    /\ (ret.op = "parse" /\ ret.val.kind = "tweet")
           => (ret.val.tweet.tweet_id # "" /\ ret.val.tweet.text # "")
    /\ \A i \in 1..Len(collected) : collected[i].tweet_id # "" /\ collected[i].text # ""
    /\ (ret.op = "parse" /\ ~NoIdentifier(body) /\ ~NoBodyText(body)
            /\ ~HasKey(body, "core"))
           => /\ ret.val # None
              /\ ret.val.kind = "tweet"
                     => /\ ret.val.tweet.user_id = ""
                        /\ ret.val.tweet.username = ""
                        /\ ret.val.tweet.display_name = ""

(***************************************************************************)
(* C14  Walker completeness: on a payload with N results-wrapper           *)
(* occurrences and M legacy-shaped occurrences find_tweet_results returns  *)
(* at least N + M candidates.                                              *)
(***************************************************************************)
WalkerComplete ==
    (ret.op = "find" /\ CountOccurrences(body) >= 1)
        => (~ret.val.raised /\ Len(ret.val.out) >= CountOccurrences(body))

(***************************************************************************)
(* One PlaywrightScraper object with several session generators.           *)
(*                                                                         *)
(* self._collected_tweets belongs to the object (line 67); each generator  *)
(* rebinds it to a new dict when it starts (lines 325, 399, 434) and each  *)
(* page's response callback is the bound method self._handle_response      *)
(* (line 111), which inserts into whatever dict the attribute names.  The  *)
(* generators are tasks of one event loop: they interleave at their        *)
(* awaits and yields.  A Tweet is a mutable object; made tells apart the   *)
(* objects created for one identifier in different dicts.                  *)
(***************************************************************************)
MaxGenScrolls == 2  \* config.max_scrolls of the object
MaxGenIds == 2      \* identifiers the two pages intercept
Gens == 1..2
Kinds == {"for_you", "user", "search"}

\* Lines 292, 421 and 459: the feed_type the generator of that kind writes.
FeedTypeOf(kind) ==
    CASE kind = "for_you" -> "for_you"
      [] kind = "user" -> "user_u"
      [] kind = "search" -> "search_q"

\* A generator not yet called.  arg is the max_tweets its caller passes (-1
\* for None), max_tweets the local the loop tests.  exc is the exception in
\* flight through its finally clause: "driver" a driver call raised, "exit"
\* the consumer closed it at a yield.
IdleGen ==
    [kind |-> "for_you", arg |-> -1, max_tweets |-> MaxTarget, pc |-> "idle", scrolls |-> 0,
     last_count |-> 0, no_new_tweets_count |-> 0, current_count |-> 0,
     new_tweets |-> <<>>, yielded |-> <<>>, seen |-> {}, exc |-> "none"]

ObjectInit ==
    /\ NoSession
    /\ body = <<>>
    /\ ret = <<>>
    /\ store = <<>>
    /\ gens = [g \in Gens |-> IdleGen]

\* The pages whose callback is registered, until the generator leaves its
\* loop.
GenListening == {"open", "scroll", "forced_scroll", "yield"}

\* The dicts created so far: one by __init__ and one by each generator
\* started.
DictsMade == Cardinality({g \in Gens : gens[g].pc # "idle"})

\* The identifiers some page has intercepted, numbered in order of arrival.
Issued == Cardinality(UNION {gens[g].seen : g \in Gens})

\* tweet.feed_type = ... on the object tw, seen through every reference to
\* it that a sequence holds.
Retag(tweets, tw, feed_type) ==
    [i \in 1..Len(tweets) |->
         IF tweets[i].tweet_id = tw.tweet_id /\ tweets[i].made = tw.made
         THEN [tweets[i] EXCEPT !.feed_type = feed_type]
         ELSE tweets[i]]

\* Lines 377-382, 425, 463: past the loop scrape_for_you_feed saves the
\* browser state, the other two go to their finally clause.
GenLoopExit(r) == IF r.kind = "for_you" THEN "save_state" ELSE "close"

\* Mutant: the while condition with scrolls <= max_scrolls.
GenLoopHeadOneMore(r) ==
    IF Len(collected) < r.max_tweets /\ r.scrolls <= MaxGenScrolls
    THEN "scroll" ELSE GenLoopExit(r)

\* The while condition of lines 349, 413 and 451 for generator record r.
GenLoopHead(r) ==
    IF LoopContinues(Len(collected), r.max_tweets, r.scrolls, MaxGenScrolls)
    THEN "scroll" ELSE GenLoopExit(r)

\* Lines 325 / 399 / 434: the generator starts and rebinds the collector.
\* The generators are numbered in the order they start.
GenStart(g) ==
    /\ gens[g].pc = "idle"
    /\ \A h \in 1..(g - 1) : gens[h].pc # "idle"
    /\ \E kind \in Kinds :
           gens' = [gens EXCEPT ![g] = [@ EXCEPT !.kind = kind, !.pc = "setup"]]
    /\ collected' = <<>>
    /\ UNCHANGED <<SessionFrame, warnings, body, ret, store>>

\* _setup_browser returned: the page and its callback exist.
GenSetupDone(g) ==
    /\ gens[g].pc = "setup"
    /\ gens' = [gens EXCEPT ![g] = [@ EXCEPT !.pc = "open"]]
    /\ UNCHANGED <<SessionFrame, collected, warnings, body, ret, store>>

\* goto, the delay and wait_for_selector returned: lines 345-349, 410-413,
\* 448-451.
GenOpened(g) ==
    /\ gens[g].pc = "open"
    /\ LET r == [gens[g] EXCEPT !.scrolls = 0, !.last_count = 0,
                                !.no_new_tweets_count = 0]
       IN  gens' = [gens EXCEPT ![g] = [r EXCEPT !.pc = GenLoopHead(r)]]
    /\ UNCHANGED <<SessionFrame, collected, warnings, body, ret, store>>

\* Lines 357-358, 420-422, 458-460: hand the first record of the list to
\* the consumer; the user and search generators first write its feed_type.
GenDeliver(g, r, tweets) ==
    LET tw == Head(tweets)
        feed_type == FeedTypeOf(r.kind)
        handed == [tw EXCEPT !.feed_type = feed_type]
    IN  /\ collected' = Retag(collected, tw, feed_type)
        /\ gens' = [h \in Gens |->
                        IF h = g
                        THEN [r EXCEPT !.new_tweets = <<handed>> \o Tail(tweets),
                                       !.yielded = Append(@, handed),
                                       !.pc = "yield"]
                        ELSE [gens[h] EXCEPT !.new_tweets = Retag(@, tw, feed_type)]]

\* _scroll_page returned: lines 351-371, 415-419, 453-457.
GenScrollDone(g) ==
    /\ gens[g].pc = "scroll"
    /\ LET r == [gens[g] EXCEPT !.scrolls = @ + 1, !.current_count = Len(collected)]
           n == r.no_new_tweets_count + 1
       IN  IF r.current_count > r.last_count
           THEN GenDeliver(g, r, NewTweets(collected, r.last_count, r.current_count))
           ELSE /\ collected' = collected
                /\ gens' = [gens EXCEPT ![g] =
                       IF r.kind # "for_you" THEN [r EXCEPT !.pc = GenLoopHead(r)]
                       ELSE [r EXCEPT !.no_new_tweets_count = n,
                                      !.pc = IF NeedsRecovery(n) THEN "forced_scroll"
                                             ELSE IF StallExhausted(n) THEN GenLoopExit(r)
                                             ELSE GenLoopHead(r)]]
    /\ UNCHANGED <<SessionFrame, warnings, body, ret, store>>

\* Lines 367-371: the forced scroll returned.
GenForcedScrollDone(g) ==
    /\ gens[g].pc = "forced_scroll"
    /\ gens' = [gens EXCEPT ![g] =
           [@ EXCEPT !.pc = IF StallExhausted(gens[g].no_new_tweets_count)
                            THEN GenLoopExit(gens[g]) ELSE GenLoopHead(gens[g])]]
    /\ UNCHANGED <<SessionFrame, collected, warnings, body, ret, store>>

\* The consumer asks for the next record: the next of the list, or lines
\* 360-361, 423, 461 and the while condition.
GenResume(g) ==
    /\ gens[g].pc = "yield"
    /\ LET rest == Tail(gens[g].new_tweets)
           r == [gens[g] EXCEPT !.new_tweets = <<>>,
                                !.last_count = gens[g].current_count,
                                !.no_new_tweets_count = 0]
       IN  IF rest # <<>>
           THEN GenDeliver(g, gens[g], rest)
           ELSE /\ collected' = collected
                /\ gens' = [gens EXCEPT ![g] = [r EXCEPT !.pc = GenLoopHead(r)]]
    /\ UNCHANGED <<SessionFrame, warnings, body, ret, store>>

\* Lines 380-391: context.storage_state returned, or raised and the except
\* clause re-raised; the finally clause follows either way.
GenSaveStateDone(g) ==
    /\ gens[g].pc = "save_state"
    /\ \E e \in {"none", "driver"} :
           gens' = [gens EXCEPT ![g] = [@ EXCEPT !.pc = "close", !.exc = e]]
    /\ UNCHANGED <<SessionFrame, collected, warnings, body, ret, store>>

\* Lines 390-391, 425-426, 463-464.
GenCloseDone(g) ==
    /\ gens[g].pc = "close"
    /\ gens' = [gens EXCEPT ![g] = [@ EXCEPT !.pc = "done"]]
    /\ UNCHANGED <<SessionFrame, collected, warnings, body, ret, store>>

\* A response with one valid record reaches the page of generator g: lines
\* 171-175 on self._collected_tweets.
GenResponse(g) ==
    /\ gens[g].pc \in GenListening
    /\ \E id \in 1..Min(MaxGenIds, Issued + 1) :
           /\ collected' = InsertTweet(collected,
                               [tweet_id |-> id, text |-> "a", feed_type |-> "for_you",
                                made |-> DictsMade])
           /\ gens' = [gens EXCEPT ![g] = [@ EXCEPT !.seen = @ \cup {id}]]
    /\ UNCHANGED <<SessionFrame, warnings, body, ret, store>>

ObjectNext ==
    \E g \in Gens :
        \/ GenStart(g)
        \/ GenSetupDone(g)
        \/ GenOpened(g)
        \/ GenScrollDone(g)
        \/ GenForcedScrollDone(g)
        \/ GenResume(g)
        \/ GenSaveStateDone(g)
        \/ GenCloseDone(g)
        \/ GenResponse(g)

ObjectSpec == ObjectInit /\ [][ObjectNext]_vars

\* The generators between their start and their end.
GenActive == {"setup", "open", "scroll", "forced_scroll", "yield", "save_state", "close"}

\* The record the normalizer created for an identifier (line 292 sets
\* feed_type "for_you" whatever the generator).
AsCreated(tw) == [tw EXCEPT !.feed_type = "for_you"]

(***************************************************************************)
(* C15  Session isolation: while a session is active its collector holds   *)
(* exactly the records its own page intercepted (none inserted for another *)
(* session, none cleared by another session), and it yields only those.    *)
(***************************************************************************)
SessionIsolation ==
    \A g \in Gens :
        gens[g].pc \in GenActive
            => /\ CollectedIds(collected) = gens[g].seen
               /\ CollectedIds(gens[g].yielded) \subseteq gens[g].seen

(***************************************************************************)
(* C16  Record immutability: no step changes a field of a record the       *)
(* collector holds, and every record handed to a consumer is as the        *)
(* normalizer created it.                                                  *)
(***************************************************************************)
RecordImmutable ==
    [][/\ \A i \in 1..Len(collected), j \in 1..Len(collected') :
              (collected[i].tweet_id = collected'[j].tweet_id
                   /\ collected[i].made = collected'[j].made)
                  => collected'[j] = collected[i]
       /\ \A g \in Gens : \A i \in 1..Len(gens'[g].yielded) :
              gens'[g].yielded[i] = AsCreated(gens'[g].yielded[i])]_vars

(***************************************************************************)
(* The persistent store: TweetRepository on the tweets table.              *)
(*                                                                         *)
(* A row has the columns of database.py lines 18-61 that the repository    *)
(* writes; username and text stand for the columns written only by the     *)
(* INSERT, NULL is Null.  store holds the rows in rowid order.             *)
(***************************************************************************)
MaxStoreIds == 2    \* tweet identifiers saved
Versions == {1, 2}  \* scrapes of one tweet, each with other field values
MaxSaves == 3       \* save_tweet calls

\* The Tweet the v-th scrape of tweet id gives: the author may have renamed,
\* the text may differ, the counters and scraped_at have moved on.
ScrapedTweet(id, v) ==
    [tweet_id |-> id,
     username |-> IF v = 1 THEN "ann" ELSE "bob",
     text |-> IF v = 1 THEN "a" ELSE "b",
     feed_type |-> "for_you",
     likes |-> v, retweets |-> v + 10, replies |-> v + 20, views |-> Num(v + 30),
     scraped_at |-> v]

ScrapedTweets == {ScrapedTweet(id, v) : id \in 1..MaxStoreIds, v \in Versions}

\* The row the INSERT of lines 28-33 adds: the columns it does not name
\* take their defaults, NULL.
InsertedRow(tweet) ==
    [tweet_id |-> tweet.tweet_id,
     username |-> tweet.username,
     text |-> tweet.text,
     feed_type |-> tweet.feed_type,
     likes |-> tweet.likes, retweets |-> tweet.retweets, replies |-> tweet.replies,
     views |-> tweet.views,
     scraped_at |-> tweet.scraped_at,
     interest_score |-> Null, topics |-> Null, summary |-> Null, analyzed_at |-> Null,
     included_in_episode |-> Null]

\* Lines 34-39: DO UPDATE SET of the five columns from the excluded row.
UpdatedRow(row, tweet) ==
    [row EXCEPT !.likes = tweet.likes, !.retweets = tweet.retweets,
                !.replies = tweet.replies, !.views = tweet.views,
                !.scraped_at = tweet.scraped_at]

StoredIds(rows) == {rows[i].tweet_id : i \in 1..Len(rows)}

\* Mutant: INSERT OR REPLACE, which puts the new row in the place of the old.
UpsertReplace(rows, tweet) ==
    IF tweet.tweet_id \in StoredIds(rows)
    THEN [i \in 1..Len(rows) |->
              IF rows[i].tweet_id = tweet.tweet_id THEN InsertedRow(tweet) ELSE rows[i]]
    ELSE Append(rows, InsertedRow(tweet))

\* The statement of lines 27-40 on the table (tweet_id is UNIQUE, line 20).
Upsert(rows, tweet) ==
    IF tweet.tweet_id \in StoredIds(rows)
    THEN [i \in 1..Len(rows) |->
              IF rows[i].tweet_id = tweet.tweet_id THEN UpdatedRow(rows[i], tweet)
              ELSE rows[i]]
    ELSE Append(rows, InsertedRow(tweet))

\* What ret records of a save_tweet call: the value returned, whether a row
\* with the identifier existed before the call, and the running totals of
\* collect_tweets (orchestrator.py lines 131-134): its counter, and the rows
\* its saves added.
SaveRet(tweet, val) ==
    [op |-> "save_tweet", tweet |-> tweet, val |-> val,
     existed |-> tweet.tweet_id \in StoredIds(store),
     saves |-> ret.saves + 1,
     counted |-> ret.counted + (IF val THEN 1 ELSE 0),
     added |-> ret.added + (IF val /\ tweet.tweet_id \notin StoredIds(store) THEN 1 ELSE 0)]

StoreInit ==
    /\ NoSession
    /\ body = <<>>
    /\ gens = <<>>
    /\ store = <<>>
    /\ ret = [op |-> "none", saves |-> 0, counted |-> 0, added |-> 0]

StoreFrame == <<SessionFrame, collected, warnings, body, gens>>

\* save_tweet, lines 41-66: execute and commit succeed, True is returned.
SaveTweet ==
    /\ ret.saves < MaxSaves
    /\ \E tweet \in ScrapedTweets :
           /\ store' = Upsert(store, tweet)
           /\ ret' = SaveRet(tweet, TRUE)
    /\ UNCHANGED StoreFrame

\* Lines 42 and 67-69: execute raises (the database is locked, the disk is
\* full); the table is as before, the error is logged and False returned.
SaveTweetRaises ==
    /\ ret.saves < MaxSaves
    /\ \E tweet \in ScrapedTweets : ret' = SaveRet(tweet, FALSE)
    /\ UNCHANGED <<StoreFrame, store>>

\* update_analysis, lines 171-194: UPDATE ... WHERE tweet_id = ?
UpdateAnalysis ==
    /\ \E id \in 1..MaxStoreIds :
           /\ store' = [i \in 1..Len(store) |->
                            IF store[i].tweet_id = id
                            THEN [store[i] EXCEPT !.interest_score = Num(7),
                                                  !.topics = Str("[\"ai\"]"),
                                                  !.summary = Str("s"),
                                                  !.analyzed_at = Str("now")]
                            ELSE store[i]]
           /\ ret' = [ret EXCEPT !.op = "update_analysis"]
    /\ UNCHANGED StoreFrame

\* mark_included_in_episode, lines 196-205: one UPDATE per identifier.
MarkIncludedInEpisode ==
    /\ \E tweet_ids \in SUBSET (1..MaxStoreIds) :
           /\ store' = [i \in 1..Len(store) |->
                            IF store[i].tweet_id \in tweet_ids
                            THEN [store[i] EXCEPT !.included_in_episode = Str("e1")]
                            ELSE store[i]]
           /\ ret' = [ret EXCEPT !.op = "mark_included_in_episode"]
    /\ UNCHANGED StoreFrame

StoreNext ==
    \/ SaveTweet
    \/ SaveTweetRaises
    \/ UpdateAnalysis
    \/ MarkIncludedInEpisode

StoreSpec == StoreInit /\ [][StoreNext]_vars

(***************************************************************************)
(* C17  Store upsert result: save_tweet returns True exactly when it       *)
(* inserted a new row, and False when a row with the tweet_id existed; so  *)
(* the counter of collect_tweets is the number of rows its saves added.    *)
(***************************************************************************)
SaveResult ==
    ret.op = "save_tweet"
        => /\ ret.val <=> (~ret.existed /\ ret.tweet.tweet_id \in StoredIds(store))
           /\ ret.existed => ~ret.val
           /\ ret.counted = ret.added

(***************************************************************************)
(* C18  Store uniqueness and upsert frame: the table never holds two rows  *)
(* with one tweet_id, and a save_tweet for a stored tweet_id changes at    *)
(* most likes, retweets, replies, views and scraped_at of that row: no row *)
(* is added or removed and every other column of every row stays.          *)
(***************************************************************************)
UpsertFrame ==
    /\ [](UniqueIds(store))
    /\ [][(ret'.op = "save_tweet" /\ ret'.existed)
             => /\ Len(store') = Len(store)
                /\ \A i \in 1..Len(store) :
                       /\ store'[i] =
                              [store[i] EXCEPT !.likes = store'[i].likes,
                                               !.retweets = store'[i].retweets,
                                               !.replies = store'[i].replies,
                                               !.views = store'[i].views,
                                               !.scraped_at = store'[i].scraped_at]
                       /\ store[i].tweet_id # ret'.tweet.tweet_id
                              => store'[i] = store[i]]_vars

\* Tweet 1 was saved with text "a", analysed and included in an episode,
\* then saved again as its second scrape: the row has the new counters and
\* the old text, analysis and episode.
UpsertFrameWitness ==
    /\ ret.op = "save_tweet"
    /\ ret.existed
    /\ ret.val
    /\ ret.tweet = ScrapedTweet(1, 2)
    /\ Len(store) = 2
    /\ store[1].tweet_id = 1
    /\ store[1].text = "a"
    /\ store[1].likes = 2
    /\ store[1].interest_score = Num(7)
    /\ store[1].included_in_episode = Str("e1")

(***************************************************************************)
(* C19  Stall counter discipline: the stall counter is 0 when the loop     *)
(* starts, grows by exactly one in each iteration whose progress check     *)
(* finds the collector no larger than at the previous check, is reset to 0 *)
(* by each iteration that finds it larger (once its records are handed     *)
(* over), and changes at no other step; it stays within                    *)
(* 0..HardStallThreshold, and a loop that ends with the target and the     *)
(* scroll cap not reached ends with the counter at HardStallThreshold.     *)
(***************************************************************************)
StallDiscipline ==
    /\ [](no_new_tweets_count \in 0..HardStallThreshold)
    /\ [][(pc = "wait_selector" /\ pc' \in {"scroll", "save_state"})
             => no_new_tweets_count' = 0]_vars
    /\ [][(pc = "scroll" /\ scrolls' = scrolls + 1)
             => no_new_tweets_count' =
                    IF Len(collected) > last_count THEN no_new_tweets_count
                    ELSE no_new_tweets_count + 1]_vars
    /\ [][(pc = "yield" /\ pc' \in {"scroll", "save_state"})
             => no_new_tweets_count' = 0]_vars
    /\ [][(/\ scrolls' = scrolls
            /\ ~(pc = "wait_selector" /\ pc' \in {"scroll", "save_state"})
            /\ ~(pc = "yield" /\ pc' \in {"scroll", "save_state"}))
             => no_new_tweets_count' = no_new_tweets_count]_vars
    /\ [][(pc \in InLoop /\ pc' = "save_state" /\ Len(collected) < max_tweets
               /\ scrolls' < config.max_scrolls)
             => no_new_tweets_count' = HardStallThreshold]_vars

\* The first iteration found nothing (counter 1), the second found a record
\* and handed it over: the counter is 0 again.
StallDisciplineWitness ==
    /\ pc = "scroll"
    /\ scrolls = 2
    /\ Len(yielded) = 1
    /\ tweets_collected = 1
    /\ last_count = 1
    /\ no_new_tweets_count = 0

HasNested(json) ==
    \E o \in Occurrences(json) : Occurrences(o) \ {o} # {}

(***************************************************************************)
(* C21  Walker recursion is independent of emission: on a payload in which *)
(* a record occurrence is nested inside an emitted candidate,              *)
(* find_tweet_results ends normally and returns every occurrence nested    *)
(* inside an emitted candidate as a candidate of its own.                  *)
(***************************************************************************)
WalkerRecursion ==
    (ret.op = "find" /\ HasNested(body))
        => /\ ~ret.val.raised
           /\ \A o \in Occurrences(body) : \A n \in Occurrences(o) :
                  \E i \in 1..Len(ret.val.out) : ret.val.out[i] = n

\* The media array of a candidate's legacy extended_entities; empty when
\* there is none.
MediaArray(c) ==
    LET extended_entities == Get(LegacyOf(c), "extended_entities", EmptyMap)
    IN  IF extended_entities.t = "map" /\ HasKey(extended_entities, "media")
               /\ Item(extended_entities, "media").t = "list"
        THEN Item(extended_entities, "media").l
        ELSE <<>>

(***************************************************************************)
(* C22  For every candidate _parse_tweet_object accepts, has_media is true *)
(* if and only if the media array of the legacy extended_entities is       *)
(* non-empty, and media_urls has one entry per element of that array.      *)
(***************************************************************************)
MediaFlag ==
    (ret.op = "parse" /\ ret.val.kind = "tweet")
        => /\ ret.val.tweet.has_media <=> (MediaArray(body) # <<>>)
           /\ Len(ret.val.tweet.media_urls) = Len(MediaArray(body))

(***************************************************************************)
(* C23  Interleaving of the response callback with the loop: a response    *)
(* is handled in one step that moves neither the generator nor its locals, *)
(* and the step that ends a scroll wait reads the collector size and takes *)
(* the slice from one and the same collector.  So last_count never exceeds *)
(* the collector size; between iterations and at the end of the loop what  *)
(* was handed over is exactly the first last_count records of the          *)
(* collector; and during the yields what was handed over plus what is      *)
(* still to come is exactly the first current_count records: no record     *)
(* inserted while the generator was suspended is skipped or handed over    *)
(* twice.                                                                  *)
(***************************************************************************)
InterleavingSafe ==
    /\ [](last_count <= Len(collected))
    /\ [](pc \in {"scroll", "forced_scroll", "save_state"}
              => yielded = SubSeq(collected, 1, last_count))
    /\ [](pc = "yield"
              => /\ last_count < current_count
                 /\ current_count <= Len(collected)
                 /\ yielded \o Tail(new_tweets) = SubSeq(collected, 1, current_count))
    /\ [][collected' # collected => (pc' = pc /\ UNCHANGED <<Locals, yielded>>)]_vars
    /\ [][(pc = "scroll" /\ scrolls' = scrolls + 1)
             => (collected' = collected /\ current_count' = Len(collected))]_vars

\* Record 2 came in after the size read of the first iteration, while the
\* generator was suspended; the second iteration hands it over after
\* record 1.
InterleavingSafeWitness ==
    /\ pc = "yield"
    /\ scrolls = 2
    /\ last_count = 1
    /\ current_count = 2
    /\ Len(yielded) = 2
    /\ grew

(***************************************************************************)
(* C24  No collected record is lost: at the step that sets the session     *)
(* completed, every record of the collector has been handed to the         *)
(* consumer, once each and in order, whether it was intercepted during the *)
(* page load, during a scroll wait or while the consumer held a record.    *)
(***************************************************************************)
NoRecordLost ==
    [][(status # "completed" /\ status' = "completed") => yielded' = collected']_vars

(***************************************************************************)
(* C25  Session counter consistency, as claimed: at every step             *)
(* tweets_collected <= records handed to the consumer <= last_count <=     *)
(* collector size; tweets_collected never decreases; and in a completed    *)
(* session tweets_collected equals the number of records handed over.      *)
(***************************************************************************)
CounterChain ==
    /\ [](/\ tweets_collected <= Len(yielded)
          /\ Len(yielded) <= last_count
          /\ last_count <= Len(collected))
    /\ [][tweets_collected' >= tweets_collected]_vars
    /\ [](status = "completed" => tweets_collected = Len(yielded))

(***************************************************************************)
(* C25 as amended: at every step tweets_collected <= records handed to the *)
(* consumer <= collector size and last_count <= records handed over; more  *)
(* than last_count records were handed over only while the records of one  *)
(* iteration are being yielded, or after the consumer closed the generator *)
(* at such a yield, and then at most current_count; tweets_collected never *)
(* decreases; and in a completed session tweets_collected equals the       *)
(* number of records handed over.                                          *)
(***************************************************************************)
CounterConsistency ==
    /\ [](/\ tweets_collected <= Len(yielded)
          /\ Len(yielded) <= Len(collected)
          /\ last_count <= Len(yielded))
    /\ [](Len(yielded) > last_count
              => /\ Len(yielded) <= current_count
                 /\ pc = "yield" \/ (pc \in {"close", "done"} /\ status = "running"))
    /\ [][tweets_collected' >= tweets_collected]_vars
    /\ [](status = "completed" => tweets_collected = Len(yielded))

\* A slice of two records: both were handed over, the first is counted,
\* last_count has not moved yet.
CounterConsistencyWitness ==
    /\ pc = "yield"
    /\ last_count = 0
    /\ current_count = 2
    /\ Len(yielded) = 2
    /\ tweets_collected = 1

(***************************************************************************)
(* One generator of any of the three kinds on a new PlaywrightScraper,     *)
(* with every way it can end: its driver calls may raise and its consumer  *)
(* may close it at a yield.                                                *)
(***************************************************************************)

\* Lines 319, 396, 431: the call.  scrape_for_you_feed takes None or an int
\* and replaces a falsy max_tweets by config.tweets_per_session; the other
\* two take an int as given.
SoloStart ==
    /\ gens[1].pc = "idle"
    /\ \E kind \in Kinds, m \in (-1)..MaxTarget :
           /\ m = -1 => kind = "for_you"
           /\ gens' = [gens EXCEPT ![1] =
               [@ EXCEPT !.kind = kind,
                         !.arg = m,
                         !.max_tweets =
                             IF kind = "for_you"
                             THEN EffectiveMaxTweets(m, [tweets_per_session |-> MaxTarget])
                             ELSE m,
                         !.pc = "setup"]]
    /\ collected' = <<>>
    /\ UNCHANGED <<SessionFrame, warnings, body, ret, store>>

\* Lines 327, 400, 435: _setup_browser raises; it is called before the try
\* statement, and no context was returned.
GenSetupRaises(g) ==
    /\ gens[g].pc = "setup"
    /\ gens' = [gens EXCEPT ![g] = [@ EXCEPT !.pc = "done", !.exc = "driver"]]
    /\ UNCHANGED <<SessionFrame, collected, warnings, body, ret, store>>

\* A driver call inside the try statement raises: goto, the delay or
\* wait_for_selector, _scroll_page, or the forced scroll.  The finally
\* clause runs.
GenDriverRaises(g) ==
    /\ gens[g].pc \in {"open", "scroll", "forced_scroll"}
    /\ gens' = [gens EXCEPT ![g] = [@ EXCEPT !.pc = "close", !.exc = "driver"]]
    /\ UNCHANGED <<SessionFrame, collected, warnings, body, ret, store>>

\* Mutant: context.close() after the try statement, not in a finally
\* clause, so GeneratorExit at the yield skips it.
GenClosesNoFinally(g) ==
    /\ gens[g].pc = "yield"
    /\ gens' = [gens EXCEPT ![g] = [@ EXCEPT !.pc = "done", !.exc = "exit"]]
    /\ UNCHANGED <<SessionFrame, collected, warnings, body, ret, store>>

\* The consumer closes the generator at the yield of line 358, 422 or 460:
\* GeneratorExit runs the finally clause.
GenCloses(g) ==
    /\ gens[g].pc = "yield"
    /\ gens' = [gens EXCEPT ![g] = [@ EXCEPT !.pc = "close", !.exc = "exit"]]
    /\ UNCHANGED <<SessionFrame, collected, warnings, body, ret, store>>

SoloNext ==
    \/ SoloStart
    \/ GenSetupDone(1)
    \/ GenSetupRaises(1)
    \/ GenOpened(1)
    \/ GenDriverRaises(1)
    \/ GenScrollDone(1)
    \/ GenForcedScrollDone(1)
    \/ GenResume(1)
    \/ GenCloses(1)
    \/ GenSaveStateDone(1)
    \/ GenCloseDone(1)
    \/ GenResponse(1)

SoloSpec == ObjectInit /\ [][SoloNext]_vars

\* The generator is scrape_user_timeline or scrape_search.
IsTimeline(r) == r.kind \in {"user", "search"}

(***************************************************************************)
(* C26  scrape_user_timeline and scrape_search have no stall detection:    *)
(* they never make a forced scroll or count stalled iterations; they start *)
(* a scroll only after a loop check that found the collector below         *)
(* max_tweets and fewer than config.max_scrolls scrolls done, so they make *)
(* at most config.max_scrolls; they leave the loop normally only at a loop *)
(* check that found the collector at max_tweets or the scrolls at          *)
(* config.max_scrolls; and a run in which no record arrived (max_tweets at *)
(* least 1, no driver call raising) has made exactly config.max_scrolls    *)
(* scrolls when it ends.                                                   *)
(***************************************************************************)
TimelineLoop ==
    /\ [](IsTimeline(gens[1])
              => /\ gens[1].scrolls <= MaxGenScrolls
                 /\ gens[1].no_new_tweets_count = 0
                 /\ gens[1].pc \notin {"forced_scroll", "save_state"})
    /\ [][(/\ IsTimeline(gens'[1])
           /\ gens'[1].pc = "scroll"
           /\ gens[1].pc # "scroll" \/ gens'[1].scrolls = gens[1].scrolls + 1)
             => /\ Len(collected') < gens'[1].max_tweets
                /\ gens'[1].scrolls < MaxGenScrolls]_vars
    /\ [][(/\ IsTimeline(gens[1])
           /\ gens[1].pc # "close"
           /\ gens'[1].pc = "close"
           /\ gens'[1].exc = "none")
             => \/ Len(collected') >= gens'[1].max_tweets
                \/ gens'[1].scrolls >= MaxGenScrolls]_vars
    /\ []((/\ IsTimeline(gens[1])
           /\ gens[1].pc = "done"
           /\ gens[1].exc = "none"
           /\ gens[1].seen = {}
           /\ gens[1].max_tweets >= 1)
              => gens[1].scrolls = MaxGenScrolls)

\* A search that intercepted nothing ended after config.max_scrolls scrolls.
TimelineLoopWitness ==
    /\ gens[1].kind = "search"
    /\ gens[1].pc = "done"
    /\ gens[1].exc = "none"
    /\ gens[1].seen = {}
    /\ gens[1].max_tweets = MaxTarget
    /\ gens[1].scrolls = MaxGenScrolls

(***************************************************************************)
(* C28  Browser context release: once _setup_browser has returned, every   *)
(* way the generator ends passes through the await of context.close() in   *)
(* its finally clause, which is entered once (only from a point inside the *)
(* try statement, and left only to the end of the generator); from then on *)
(* no scroll is made and no record is yielded.                             *)
(***************************************************************************)
ContextRelease ==
    /\ [][(gens'[1].pc = "done" /\ gens[1].pc # "done")
             => gens[1].pc \in {"close", "setup"}]_vars
    /\ [][(gens'[1].pc = "close" /\ gens[1].pc # "close")
             => gens[1].pc \in {"open", "scroll", "forced_scroll", "yield", "save_state"}]_vars
    /\ [][gens[1].pc \in {"close", "done"}
             => /\ gens'[1].pc \in {gens[1].pc, "done"}
                /\ gens'[1].scrolls = gens[1].scrolls
                /\ gens'[1].yielded = gens[1].yielded]_vars

\* The consumer closed a user timeline generator at its first record, and
\* the generator ended through its finally clause.
ContextReleaseWitness ==
    /\ gens[1].kind = "user"
    /\ gens[1].pc = "done"
    /\ gens[1].exc = "exit"
    /\ Len(gens[1].yielded) = 1

(***************************************************************************)
(* C27  The maximum record count the caller supplies is the effective      *)
(* target of scrape_for_you_feed for every supplied value: the loop tests  *)
(* the collector against the value passed, and a session called with       *)
(* max_tweets = 0 makes no scroll and yields no record.                    *)
(***************************************************************************)
SuppliedTarget ==
    (gens[1].kind = "for_you" /\ gens[1].pc # "idle" /\ gens[1].arg # -1)
        => /\ gens[1].max_tweets = gens[1].arg
           /\ gens[1].arg = 0 => (gens[1].scrolls = 0 /\ gens[1].yielded = <<>>)

(***************************************************************************)
(* The table under podcast generation: save_tweet, update_analysis,        *)
(* generate_podcast and cleanup_old_tweets called one after the other.     *)
(* The calls are made at any time and with any hours / days argument, so   *)
(* the cutoff a call compares scraped_at with is any of Cutoffs.           *)
(***************************************************************************)
MaxEpisodes == 2    \* generate_podcast calls
Cutoffs == {1, 2, 3}
EpisodeIds == <<"e1", "e2", "e3", "e4">>
MinInterestScore == 6

\* The WHERE clauses of get_top_tweets, lines 139-144 and 157-161; a NULL
\* interest_score satisfies no comparison.
Eligible(row, min_interest_score) ==
    /\ row.interest_score # Null
    /\ row.interest_score.n >= min_interest_score
    /\ row.included_in_episode = Null

\* ORDER BY interest_score DESC, (likes + retweets * 2) DESC: row a comes
\* strictly before row b.
Outranks(a, b) ==
    \/ a.interest_score.n > b.interest_score.n
    \/ /\ a.interest_score.n = b.interest_score.n
       /\ a.likes + a.retweets * 2 > b.likes + b.retweets * 2

\* The first limit rows of the candidates in that order; rows the order
\* does not tell apart may come in either order.
TopOf(candidates, limit) ==
    {S \in SUBSET candidates :
         /\ Cardinality(S) = Min(limit, Cardinality(candidates))
         /\ \A a \in candidates \ S, b \in S : ~Outranks(a, b)}

\* get_top_tweets, lines 130-169: the recent rows, or when there is none
\* the rows of any age.
GetTopTweets(rows, cutoff, limit, min_interest_score) ==
    LET all == {rows[i] : i \in 1..Len(rows)}
        recent == {r \in all : r.scraped_at >= cutoff /\ Eligible(r, min_interest_score)}
        any == {r \in all : Eligible(r, min_interest_score)}
    IN  IF recent # {} THEN TopOf(recent, limit) ELSE TopOf(any, limit)

\* Mutant: the UPDATE written with WHERE id = ?, the row number, which no
\* tweet identifier matches.
MarkedNone(rows, tweet_ids, episode_id) == rows

\* mark_included_in_episode, lines 196-205, on the table.
Marked(rows, tweet_ids, episode_id) ==
    [i \in 1..Len(rows) |->
         IF rows[i].tweet_id \in tweet_ids
         THEN [rows[i] EXCEPT !.included_in_episode = Str(episode_id)]
         ELSE rows[i]]

EpisodeInit ==
    /\ StoreInit

EpisodeFrame == <<config, pc, max_tweets, Session, Locals, exc, outcome, caller, yielded,
                  resent, grew, collected, warnings, body, gens>>

\* generate_podcast, orchestrator.py lines 196-225, to its end: the tweets
\* are selected, script and audio are generated, the tweets are marked.
GeneratePodcast ==
    /\ Len(episodes) < MaxEpisodes
    /\ \E cutoff \in Cutoffs, limit \in 1..MaxStoreIds :
       \E tweets \in GetTopTweets(store, cutoff, limit, MinInterestScore) :
           /\ tweets # {}
           /\ store' = Marked(store, {t.tweet_id : t \in tweets},
                              EpisodeIds[Len(episodes) + 1])
           /\ episodes' = Append(episodes, {t.tweet_id : t \in tweets})
    /\ ret' = [ret EXCEPT !.op = "generate_podcast"]
    /\ UNCHANGED EpisodeFrame

\* Lines 204-206, 211 and 214: no tweet is selected and ValueError is
\* raised, or the script or audio generation raises; line 219 is not
\* reached.
GeneratePodcastRaises ==
    /\ ret' = [ret EXCEPT !.op = "generate_podcast raised"]
    /\ UNCHANGED <<EpisodeFrame, store, episodes>>

\* cleanup_old_tweets, lines 253-259.
CleanupOldTweets ==
    /\ \E cutoff \in Cutoffs :
           LET Kept(row) == ~(row.scraped_at < cutoff /\ row.included_in_episode = Null)
           IN  store' = SelectSeq(store, Kept)
    /\ ret' = [ret EXCEPT !.op = "cleanup_old_tweets"]
    /\ UNCHANGED <<EpisodeFrame, episodes>>

EpisodeNext ==
    \/ SaveTweet
    \/ UpdateAnalysis
    \/ GeneratePodcast
    \/ GeneratePodcastRaises
    \/ CleanupOldTweets

EpisodeSpec == EpisodeInit /\ [][EpisodeNext]_vars

\* The tweets of the episodes generated so far.
Included == UNION {episodes[i] : i \in 1..Len(episodes)}

(***************************************************************************)
(* C29  A tweet is included in at most one episode: what get_top_tweets    *)
(* returns to generate_podcast holds no row whose included_in_episode is   *)
(* set; once a generate_podcast call has generated its audio every tweet   *)
(* it selected is marked; no step removes a marked row or clears its mark; *)
(* and no tweet id was selected for two generated episodes.                *)
(***************************************************************************)
EpisodeOnce ==
    /\ [][Len(episodes') > Len(episodes)
             => \A id \in episodes'[Len(episodes')] : \E k \in 1..Len(store) :
                    store[k].tweet_id = id /\ store[k].included_in_episode = Null]_vars
    /\ [](\A id \in Included : \E k \in 1..Len(store) :
              store[k].tweet_id = id /\ store[k].included_in_episode # Null)
    /\ [][\A k \in 1..Len(store) :
              store[k].included_in_episode # Null
                  => \E j \in 1..Len(store') :
                         /\ store'[j].tweet_id = store[k].tweet_id
                         /\ store'[j].included_in_episode = store[k].included_in_episode]_vars
    /\ [](\A i, j \in 1..Len(episodes) : i # j => episodes[i] \cap episodes[j] = {})

\* Two episodes were generated; tweet 1 is in the first and not in the
\* second, which has tweet 2.
EpisodeOnceWitness ==
    /\ Len(episodes) = 2
    /\ episodes[1] = {1}
    /\ episodes[2] = {2}
    /\ ret.op = "generate_podcast"

====
